---- MODULE Spec2Model ----
(***************************************************************************)
(* Model of lib/exabgp/reactor/protocol.py: the per-session Protocol      *)
(* object of ExaBGP.  Generators are modelled as processes with a program  *)
(* counter; every value a generator yields is appended to a trace.         *)
(*                                                                         *)
(* Byte strings are modelled as sequences of runs: the serialized          *)
(* fragment number i of length L > 0 is the one-run string                 *)
(* <<[frag |-> i, len |-> L]>>, the empty string is <<>>, string           *)
(* concatenation is \o and len() is the sum of the run lengths.            *)
(***************************************************************************)
EXTENDS Integers, Sequences, FiniteSets, TLC

\* ------------------------------------------------------------- bounds
MaxSize == 3        \* the small message size used next to 25 and 4077
MaxFrags == 3       \* fragments one producer run may deliver
MaxFlags == 2       \* progress flags connection.writer reports per message
MaxRunFlags == 3    \* progress flags one run of _announce sees in all
MaxConnects == 2    \* connections one session establishes
MaxZeroReads == 2   \* zero-length results connection.reader gives before a frame

\* ---------------------------------------------------- wire constants
MAX_LEN == 4096
HEADER_LEN == 19

VARIABLES
  cfg,           \* self.neighbor: the peer configuration
  connection,    \* self.connection: "none" or "open"
  message_size,  \* self.message_size
  apc,           \* _announce: position of the generator
  name,          \* _announce: the name argument
  frags,         \* lengths of the fragments pulled from the producer so far
  data,          \* chunked: loop variable data
  chunk,         \* chunked: local chunk
  number,        \* chunked: local number
  written,       \* every (number, update) handed to self.write, in order
  wire,          \* every message handed to connection.writer, in order
  nflags,        \* flags reported by the current connection.writer
  out,           \* values yielded by new_update / new_eors
  negotiated,    \* self.negotiated
  rpc,           \* read_message: position of the generator
  caller,        \* who iterates read_message
  zeros,         \* zero-length results connection.reader has produced
  length,        \* read_message: loop variable length
  msg,           \* read_message: loop variable msg
  body,          \* read_message: loop variable body
  frame,         \* the complete frame connection.reader has produced
  msgs,          \* values yielded by read_message
  hpc,           \* read_open / read_keepalive: position of the generator
  message,       \* read_open / read_keepalive: loop variable message
  hout,          \* values yielded by read_open / read_keepalive
  notify,        \* (code, subcode) of the Notify raised on the read side
  opc,           \* new_open: position of the generator
  oout,          \* values yielded by new_open
  flags,         \* _announce: every flag of connection.writer, with its chunk
  kpc,           \* new_keepalive: position of the generator
  kout,          \* values yielded by new_keepalive
  npc,           \* new_notification: position of the generator
  nout,          \* values yielded by new_notification
  nconn,         \* connections this session has had
  nclose,        \* calls of connection.close()
  ndown,         \* calls of processes.down
  nfail,         \* calls of processes.down that raised ProcessError
  called         \* the last call of connect or close and how it ended

avars == <<apc, name, frags, data, chunk, number, written, wire, nflags, out, flags>>
svars == <<cfg, connection, message_size>>
rvars == <<rpc, caller, zeros, length, msg, body, frame, msgs, hpc, message, hout, notify>>
ovars == <<opc, oout>>
kvars == <<kpc, kout>>
nvars == <<npc, nout>>
cvars == <<nconn, nclose, ndown, nfail, called>>
vars == <<svars, negotiated, avars, rvars, ovars, kvars, nvars, cvars>>

\* ------------------------------------------------------ byte strings
RECURSIVE StrLen(_)
StrLen(s) == IF s = <<>> THEN 0 ELSE Head(s).len + StrLen(Tail(s))

Fragment(i, l) == IF l = 0 THEN <<>> ELSE <<[frag |-> i, len |-> l]>>

\* the lengths a producer may give a fragment when the limit is size; a
\* fragment is an encoded message and so never the empty string
SessionLens(size) == {size \div 2, size + 1}

FragLens(size) == {10, size \div 2, size - (size \div 2), size, size + 1}

MessageSizes == {MaxSize, 25, MAX_LEN - HEADER_LEN}

\* ---------------------------------------------------- BGP messages
\* Message.Type
TYPE_OPEN == 1
TYPE_UPDATE == 2
TYPE_NOTIFICATION == 3
TYPE_KEEPALIVE == 4
TYPE_ROUTE_REFRESH == 5

UnknownTypes == {0, 6, 255}

\* the length of a frame that may be an END-OF-RIB marker
EOR_LENGTH == 30

\* negotiated.multisession: True, False, or the notification to raise
MsTrue == [flag |-> "True", code |-> 0, subcode |-> 0]
MsFalse == [flag |-> "False", code |-> 0, subcode |-> 0]
MsError == [flag |-> "Error", code |-> 2, subcode |-> 8]

\* the fields of an OPEN message read_open and Negotiated look at
Opens ==
  [asn : {65001, 65002}, router_id : {0, 1, 2}, hold_time : {0, 2, 3},
   asn4 : BOOLEAN, multisession : {MsTrue, MsFalse, MsError}]

NoOpen == [asn |-> 0, router_id |-> 0, hold_time |-> 0, asn4 |-> FALSE,
           multisession |-> MsFalse]

\* what read_message looks at in body
NoBody == [eor |-> FALSE, open |-> NoOpen]

\* the complete frames connection.reader may deliver
Frames ==
       [length : {EOR_LENGTH, EOR_LENGTH + 1}, msg : {TYPE_UPDATE},
        body : [eor : BOOLEAN, open : {NoOpen}]]
  \cup [length : {HEADER_LEN}, msg : {TYPE_KEEPALIVE}, body : {NoBody}]
  \cup [length : {HEADER_LEN + 2}, msg : {TYPE_NOTIFICATION}, body : {NoBody}]
  \cup [length : {HEADER_LEN + 4}, msg : {TYPE_ROUTE_REFRESH}, body : {NoBody}]
  \cup [length : {HEADER_LEN + 10}, msg : {TYPE_OPEN},
        body : [eor : {FALSE}, open : Opens]]
  \cup [length : {HEADER_LEN, EOR_LENGTH}, msg : UnknownTypes,
        body : [eor : BOOLEAN, open : {NoOpen}]]

\* the frames of the session runs: two OPENs the rules accept, one they
\* reject, a KEEPALIVE and an END-OF-RIB marker
SessionOpens ==
  [asn : {65002}, router_id : {2}, hold_time : {0, 2, 3}, asn4 : {TRUE},
   multisession : {MsFalse}]

SessionFrames ==
       [length : {HEADER_LEN + 10}, msg : {TYPE_OPEN},
        body : [eor : {FALSE}, open : SessionOpens]]
  \cup [length : {HEADER_LEN}, msg : {TYPE_KEEPALIVE}, body : {NoBody}]
  \cup [length : {EOR_LENGTH}, msg : {TYPE_UPDATE},
        body : [eor : {TRUE}, open : {NoOpen}]]

\* the (code, subcode) a ValueError of connection.reader may carry
ReaderFaults == {<<1, 1>>, <<1, 2>>}

\* the values the generators yield
Msg(k, c, o) == [kind |-> k, code |-> c, open |-> o]
_NOP == Msg("NoOp", 0, NoOpen)
Unknown(c) == Msg("Unknown", c, NoOpen)
KeepAlive == Msg("KeepAlive", 0, NoOpen)
Notification == Msg("Notification", 0, NoOpen)
RouteRefresh == Msg("RouteRefresh", 0, NoOpen)
EOR == Msg("EOR", 0, NoOpen)
Update == Msg("Update", 0, NoOpen)
Open(o) == Msg("Open", 0, o)

\* the TYPE attribute of a message
TYPE(m) ==
  CASE m.kind \in {"NoOp", "Unknown"} -> "NOP"
    [] m.kind \in {"Update", "EOR"} -> "UPDATE"
    [] m.kind = "KeepAlive" -> "KEEPALIVE"
    [] m.kind = "Notification" -> "NOTIFICATION"
    [] m.kind = "RouteRefresh" -> "ROUTE_REFRESH"
    [] m.kind = "Open" -> "OPEN"

\* ------------------------------------------------------- Negotiated
Negotiated ==
  [sent |-> <<>>, received |-> <<>>, peer_as |-> 0, asn4 |-> FALSE,
   multisession |-> MsFalse]

NegotiatedSent(n, o) == [n EXCEPT !.sent = <<o>>]

NegotiatedReceived(n, o) ==
  [n EXCEPT !.received = <<o>>, !.peer_as = o.asn, !.asn4 = o.asn4,
            !.multisession = o.multisession]

\* ASN.asn4(): the AS number does not fit in two bytes
Asn4(as) == as > 65535

\* ------------------------------------------------------ configuration
AnnounceConfigs ==
  [local_as : {65001}, peer_as : {65002}, router_id : {1}, hold_time : {180},
   send_packets : BOOLEAN, receive_packets : {FALSE}, receive_routes : {FALSE},
   neighbor_changes : {FALSE}]

SessionConfigs ==
  [local_as : {65001}, peer_as : {65002}, router_id : {1}, hold_time : {180},
   send_packets : BOOLEAN, receive_packets : {FALSE}, receive_routes : {FALSE},
   neighbor_changes : BOOLEAN]

ReadConfigs ==
  [local_as : {65001, 70000}, peer_as : {65001, 65002}, router_id : {1},
   hold_time : {180}, send_packets : BOOLEAN, receive_packets : BOOLEAN,
   receive_routes : BOOLEAN, neighbor_changes : {FALSE}]

\* ------------------------------------------------- Protocol.write
\* processes.send is called only when api.send_packets is set; ok is the
\* outcome of the monitoring collaborator (FALSE: it raises ProcessError)
SendRaises(c, ok) == c.send_packets /\ ~ok

\* --------------------------------------------- Protocol._announce
TooBigNever(d, size) == FALSE

TooBig(d, size) == StrLen(d) > size

FitsIgnoringData(c, d, size) == StrLen(c) <= size

FitsStrict(c, d, size) == StrLen(c) + StrLen(d) < size

Fits(c, d, size) == StrLen(c) + StrLen(d) <= size

ExtendReversed(c, d) == d \o c

Extend(c, d) == c \o d

\* the accumulator after a chunk has been yielded: the fragment that did
\* not fit
ReseedEmpty(d) == <<>>

Reseed(d) == d

\* whether the accumulator is yielded when the producer is exhausted
FlushAtEndAlways(c) == TRUE

FlushAtEnd(c) == c # <<>>

ProgressAlwaysNumber(boolean, n) == n

Progress(boolean, n) == IF boolean THEN n ELSE 0

\* ------------------------------------------------------------ Init
IdleAnnounce ==
  /\ apc = "idle"
  /\ name = "none"
  /\ frags = <<>>
  /\ data = <<>>
  /\ chunk = <<>>
  /\ number = 0
  /\ written = <<>>
  /\ wire = <<>>
  /\ nflags = 0
  /\ out = <<>>
  /\ flags = <<>>

IdleRead ==
  /\ rpc = "idle"
  /\ caller = "none"
  /\ zeros = 0
  /\ length = 0
  /\ msg = 0
  /\ body = NoBody
  /\ frame = <<>>
  /\ msgs = <<>>
  /\ hpc = "idle"
  /\ message = <<>>
  /\ hout = <<>>
  /\ notify = <<>>

IdleOpen ==
  /\ opc = "idle"
  /\ oout = <<>>

IdleSend ==
  /\ kpc = "idle"
  /\ kout = <<>>
  /\ npc = "idle"
  /\ nout = <<>>

\* no call has been made; n connections so far
NoCall(n) ==
  /\ nconn = n
  /\ nclose = 0
  /\ ndown = 0
  /\ nfail = 0
  /\ called = [op |-> "none", effect |-> "none"]

InitAnnounce ==
  /\ cfg \in AnnounceConfigs
  /\ connection = "open"
  /\ message_size \in MessageSizes
  /\ negotiated = Negotiated
  /\ IdleAnnounce
  /\ IdleRead
  /\ IdleOpen
  /\ IdleSend
  /\ NoCall(1)

\* new_update: _announce('UPDATE', delta.updates(...)); chunked starts
Announce(n) ==
  /\ apc = "idle"
  /\ apc' = "pull"
  /\ name' = n
  /\ chunk' = <<>>
  /\ number' = 0
  /\ UNCHANGED <<frags, data, written, wire, nflags, out, flags, svars, negotiated, rvars, ovars, kvars, nvars, cvars>>

new_update == Announce("UPDATE")

new_eors == Announce("EOR")

\* chunked: the producer delivers one more fragment of length l
PullFragmentFrom(lens) ==
  /\ apc = "pull"
  /\ Len(frags) < MaxFrags
  /\ \E l \in lens :
       LET d == Fragment(Len(frags) + 1, l) IN
       /\ frags' = Append(frags, l)
       /\ data' = d
       /\ IF TooBig(d, message_size)
            THEN /\ apc' = "SizeError"
                 /\ UNCHANGED <<chunk, number>>
            ELSE IF Fits(chunk, d, message_size)
              THEN /\ chunk' = Extend(chunk, d)
                   /\ number' = number + 1
                   /\ apc' = "pull"
              ELSE /\ apc' = "emit"
                   /\ UNCHANGED <<chunk, number>>
  /\ UNCHANGED <<name, written, wire, nflags, out, flags, svars, negotiated, rvars, ovars, kvars, nvars, cvars>>

PullFragment == PullFragmentFrom(FragLens(message_size))

\* chunked: the producer is exhausted
PullEnd ==
  /\ apc = "pull"
  /\ apc' = IF FlushAtEnd(chunk) THEN "emit_last" ELSE "done"
  /\ UNCHANGED <<name, frags, data, chunk, number, written, wire, nflags, out, flags, svars, negotiated, rvars, ovars, kvars, nvars, cvars>>

\* _announce: the chunk is handed to self.write, which forwards it to the
\* monitoring collaborator and then to connection.writer
WriteChunk ==
  /\ apc \in {"emit", "emit_last"}
  /\ written' = Append(written, [number |-> number, chunk |-> chunk])
  /\ \E ok \in BOOLEAN :
       IF SendRaises(cfg, ok)
         THEN /\ apc' = "ProcessError"
              /\ UNCHANGED <<wire, nflags>>
         ELSE /\ apc' = IF apc = "emit" THEN "writer" ELSE "writer_last"
              /\ wire' = Append(wire, chunk)
              /\ nflags' = 0
  /\ UNCHANGED <<name, frags, data, chunk, number, out, flags, svars, negotiated, rvars, ovars, kvars, nvars, cvars>>

\* _announce: connection.writer reports one progress flag
WriterFlag ==
  /\ apc \in {"writer", "writer_last"}
  /\ nflags < MaxFlags
  /\ Len(out) < MaxRunFlags
  /\ \E boolean \in BOOLEAN :
       /\ out' = Append(out, Progress(boolean, number))
       /\ flags' = Append(flags, [k |-> Len(written), b |-> boolean])
  /\ nflags' = nflags + 1
  /\ UNCHANGED <<apc, name, frags, data, chunk, number, written, wire, svars, negotiated, rvars, ovars, kvars, nvars, cvars>>

\* _announce: connection.writer is exhausted and chunked is resumed
WriterEnd ==
  /\ apc \in {"writer", "writer_last"}
  /\ IF apc = "writer"
       THEN /\ chunk' = Reseed(data)
            /\ number' = 1
            /\ apc' = "pull"
       ELSE /\ apc' = "done"
            /\ UNCHANGED <<chunk, number>>
  /\ UNCHANGED <<name, frags, data, written, wire, nflags, out, flags, svars, negotiated, rvars, ovars, kvars, nvars, cvars>>

NextAnnounce ==
  \/ new_update
  \/ new_eors
  \/ PullFragment
  \/ PullEnd
  \/ WriteChunk
  \/ WriterFlag
  \/ WriterEnd

SpecAnnounce == InitAnnounce /\ [][NextAnnounce]_vars

\* ============================================== Protocol.read_message
\* processes.receive and processes.routes: ok is the outcome of the
\* monitoring collaborator (FALSE: it raises ProcessError)
ReceiveRaises(c, ok) == c.receive_packets /\ ~ok

RoutesRaises(c, ok) == c.receive_routes /\ ~ok

ZeroReadKeepAlive == KeepAlive

\* the value yielded for a zero-length result of connection.reader
ZeroReadMessage == _NOP

IsEOR(l, b) == l = EOR_LENGTH /\ b.eor

\* the value yielded for a frame whose type is not UPDATE
Decode(t, b) ==
  CASE t = TYPE_KEEPALIVE -> KeepAlive
    [] t = TYPE_NOTIFICATION -> Notification
    [] t = TYPE_ROUTE_REFRESH -> RouteRefresh
    [] t = TYPE_OPEN -> Open(b.open)
    [] OTHER -> Unknown(t)

\* an exception leaves read_message and so the generator iterating it
Raise(exc) ==
  /\ rpc' = exc
  /\ hpc' = IF caller = "read_message" THEN hpc ELSE exc

\* read_message yields m and is at position next when it is resumed; when
\* read_open or read_keepalive iterates, a NOP is passed on and anything else
\* ends the loop
Yield(m, next) ==
  /\ msgs' = Append(msgs, m)
  /\ IF caller = "read_message"
       THEN /\ rpc' = next
            /\ UNCHANGED <<message, hout, hpc>>
       ELSE /\ message' = <<m>>
            /\ IF TYPE(m) = "NOP"
                 THEN /\ hout' = Append(hout, m)
                      /\ rpc' = next
                      /\ hpc' = IF next = "end" THEN "check" ELSE hpc
                 ELSE /\ rpc' = "break"
                      /\ hpc' = "check"
                      /\ UNCHANGED hout

StartRead(c) ==
  /\ rpc = "idle"
  /\ connection = "open"
  /\ rpc' = "reading"
  /\ caller' = c
  /\ hpc' = IF c = "read_message" THEN hpc ELSE "loop"
  /\ UNCHANGED <<zeros, length, msg, body, frame, msgs, message, hout, notify,
                 svars, negotiated, avars, ovars, kvars, nvars, cvars>>

read_message == StartRead("read_message")

read_open == StartRead("read_open")

read_keepalive == StartRead("read_keepalive")

\* connection.reader has no complete frame yet: (0, 0, '', '')
ReaderZero ==
  /\ rpc = "reading"
  /\ zeros < MaxZeroReads
  /\ zeros' = zeros + 1
  /\ length' = 0
  /\ msg' = 0
  /\ body' = NoBody
  /\ Yield(ZeroReadMessage, "reading")
  /\ UNCHANGED <<caller, frame, notify, svars, negotiated, avars, ovars, kvars, nvars, cvars>>

\* connection.reader produces the complete frame and ends
ReaderFrameFrom(frames) ==
  /\ rpc = "reading"
  /\ \E f \in frames :
       /\ length' = f.length
       /\ msg' = f.msg
       /\ body' = f.body
       /\ frame' = <<f>>
  /\ rpc' = "receive"
  /\ UNCHANGED <<caller, zeros, msgs, hpc, message, hout, notify,
                 svars, negotiated, avars, ovars, kvars, nvars, cvars>>

ReaderFrame == ReaderFrameFrom(Frames)

\* connection.reader raises ValueError('code subcode text')
ReaderError ==
  /\ rpc = "reading"
  /\ \E n \in ReaderFaults : notify' = n
  /\ Raise("Notify")
  /\ UNCHANGED <<caller, zeros, length, msg, body, frame, msgs, message, hout,
                 svars, negotiated, avars, ovars, kvars, nvars, cvars>>

\* the raw frame is forwarded to the monitoring collaborator
Receive ==
  /\ rpc = "receive"
  /\ \E ok \in BOOLEAN :
       IF ReceiveRaises(cfg, ok)
         THEN Raise("ProcessError")
         ELSE rpc' = "dispatch" /\ UNCHANGED hpc
  /\ UNCHANGED <<caller, zeros, length, msg, body, frame, msgs, message, hout,
                 notify, svars, negotiated, avars, ovars, kvars, nvars, cvars>>

\* the part of the UPDATE branch after the END-OF-RIB test
UpdateRoutes ==
  IF cfg.receive_routes
    THEN \E ok \in BOOLEAN :
           IF RoutesRaises(cfg, ok)
             THEN /\ Raise("ProcessError")
                  /\ UNCHANGED <<msgs, message, hout>>
             ELSE Yield(Update, "end")
    ELSE Yield(_NOP, "end")

\* the if / elif chain on msg
Dispatch ==
  /\ rpc = "dispatch"
  /\ IF msg = TYPE_UPDATE
       THEN IF IsEOR(length, body)
              THEN Yield(EOR, "update")
              ELSE UpdateRoutes
       ELSE Yield(Decode(msg, body), "end")
  /\ UNCHANGED <<caller, zeros, length, msg, body, frame, notify,
                 svars, negotiated, avars, ovars, kvars, nvars, cvars>>

\* read_message is resumed after it has yielded the EOR
ResumeUpdate ==
  /\ rpc = "update"
  /\ UpdateRoutes
  /\ UNCHANGED <<caller, zeros, length, msg, body, frame, notify,
                 svars, negotiated, avars, ovars, kvars, nvars, cvars>>

\* ================================================= Protocol.read_open
Pass == [ok |-> TRUE, code |-> 0, subcode |-> 0]
Fail(c, sc) == [ok |-> FALSE, code |-> c, subcode |-> sc]

RuleAsn4(n, c) == ~n.asn4 /\ Asn4(c.local_as)

RuleAsn(n, c) == n.peer_as # c.peer_as

RuleRouterIdZeroOff(o) == FALSE

RuleRouterIdZero(o) == o.router_id = 0

RuleCollisionEither(o, c) == o.router_id = c.router_id \/ o.asn = c.local_as

RuleCollision(o, c) == o.router_id = c.router_id /\ o.asn = c.local_as

RuleHoldTime(o) == o.hold_time # 0 /\ o.hold_time < 3

RuleMultisession(n) == n.multisession.flag \notin {"True", "False"}

FirstMessageRuleNever(m) == FALSE

FirstMessageRuleKeepAlive(m) == TYPE(m) \notin {"OPEN", "KEEPALIVE"}

FirstMessageRule(m) == TYPE(m) # "OPEN"

\* the rules with the router id tested before the AS number
VerdictRouterIdFirst(o, n, c) ==
  IF RuleAsn4(n, c) THEN Fail(2, 0)
  ELSE IF RuleRouterIdZero(o) THEN Fail(2, 3)
  ELSE IF RuleAsn(n, c) THEN Fail(2, 2)
  ELSE IF RuleCollision(o, c) THEN Fail(2, 3)
  ELSE IF RuleHoldTime(o) THEN Fail(2, 6)
  ELSE IF RuleMultisession(n) THEN Fail(n.multisession.code, n.multisession.subcode)
  ELSE Pass

\* the outcome of the rules applied to OPEN o once it is recorded in n
Verdict(o, n, c) ==
  IF RuleAsn4(n, c) THEN Fail(2, 0)
  ELSE IF RuleAsn(n, c) THEN Fail(2, 2)
  ELSE IF RuleRouterIdZero(o) THEN Fail(2, 3)
  ELSE IF RuleCollision(o, c) THEN Fail(2, 3)
  ELSE IF RuleHoldTime(o) THEN Fail(2, 6)
  ELSE IF RuleMultisession(n) THEN Fail(n.multisession.code, n.multisession.subcode)
  ELSE Pass

\* read_open after its loop: the first message test, negotiated.received,
\* the rules, and the yield of the OPEN
ReadOpenCheck ==
  /\ hpc = "check"
  /\ caller = "read_open"
  /\ LET m == message[1] IN
     IF FirstMessageRule(m)
       THEN /\ hpc' = "Notify"
            /\ notify' = <<5, 1>>
            /\ UNCHANGED <<negotiated, hout>>
       ELSE /\ negotiated' = NegotiatedReceived(negotiated, m.open)
            /\ LET v == Verdict(m.open, negotiated', cfg) IN
               IF v.ok
                 THEN /\ hout' = Append(hout, m)
                      /\ hpc' = "done"
                      /\ UNCHANGED notify
                 ELSE /\ hpc' = "Notify"
                      /\ notify' = <<v.code, v.subcode>>
                      /\ UNCHANGED hout
  /\ UNCHANGED <<rpc, caller, zeros, length, msg, body, frame, msgs, message,
                 svars, avars, ovars, kvars, nvars, cvars>>

\* ============================================ Protocol.read_keepalive
ReadKeepaliveCheck ==
  /\ hpc = "check"
  /\ caller = "read_keepalive"
  /\ IF TYPE(message[1]) # "KEEPALIVE"
       THEN /\ hpc' = "Notify"
            /\ notify' = <<5, 2>>
            /\ UNCHANGED hout
       ELSE /\ hout' = Append(hout, message[1])
            /\ hpc' = "done"
            /\ UNCHANGED notify
  /\ UNCHANGED <<rpc, caller, zeros, length, msg, body, frame, msgs, message,
                 svars, negotiated, avars, ovars, kvars, nvars, cvars>>

\* ================================================== Protocol.new_open
\* Open().new(4, local_as, router_id, capabilities, hold_time)
SentOpenNoHoldTime(c) ==
  [asn |-> c.local_as, router_id |-> c.router_id, hold_time |-> 0,
   asn4 |-> TRUE, multisession |-> MsFalse]

SentOpen(c) ==
  [asn |-> c.local_as, router_id |-> c.router_id, hold_time |-> c.hold_time,
   asn4 |-> TRUE, multisession |-> MsFalse]

new_open ==
  /\ opc = "idle"
  /\ connection = "open"
  /\ negotiated' = NegotiatedSent(negotiated, SentOpen(cfg))
  /\ opc' = "write"
  /\ UNCHANGED <<oout, svars, avars, rvars, kvars, nvars, cvars>>

\* self.write(sent_open.message()) up to the call of connection.writer
OpenWrite ==
  /\ opc = "write"
  /\ \E ok \in BOOLEAN :
       opc' = IF SendRaises(cfg, ok) THEN "ProcessError" ELSE "writer"
  /\ UNCHANGED <<oout, svars, negotiated, avars, rvars, kvars, nvars, cvars>>

\* connection.writer reports one progress flag: new_open yields _NOP
OpenWriterFlag ==
  /\ opc = "writer"
  /\ Len(oout) < MaxFlags
  /\ oout' = Append(oout, _NOP)
  /\ UNCHANGED <<opc, svars, negotiated, avars, rvars, kvars, nvars, cvars>>

\* connection.writer is exhausted: new_open yields sent_open
OpenWriterEnd ==
  /\ opc = "writer"
  /\ oout' = Append(oout, Open(SentOpen(cfg)))
  /\ opc' = "done"
  /\ UNCHANGED <<svars, negotiated, avars, rvars, kvars, nvars, cvars>>

InitRead ==
  /\ cfg \in ReadConfigs
  /\ connection = "open"
  /\ message_size = MAX_LEN - HEADER_LEN
  /\ negotiated = Negotiated
  /\ IdleAnnounce
  /\ IdleRead
  /\ IdleOpen
  /\ IdleSend
  /\ NoCall(1)

NextRead ==
  \/ read_message
  \/ read_open
  \/ read_keepalive
  \/ ReaderZero
  \/ ReaderFrame
  \/ ReaderError
  \/ Receive
  \/ Dispatch
  \/ ResumeUpdate
  \/ ReadOpenCheck
  \/ ReadKeepaliveCheck
  \/ new_open
  \/ OpenWrite
  \/ OpenWriterFlag
  \/ OpenWriterEnd

SpecRead == InitRead /\ [][NextRead]_vars

\* ============================================== Protocol.new_keepalive
new_keepalive ==
  /\ kpc = "idle"
  /\ connection = "open"
  /\ kpc' = "write"
  /\ UNCHANGED <<kout, svars, negotiated, avars, rvars, ovars, nvars, cvars>>

\* self.write(keepalive.message()) up to the call of connection.writer
KeepaliveWrite ==
  /\ kpc = "write"
  /\ \E ok \in BOOLEAN :
       kpc' = IF SendRaises(cfg, ok) THEN "ProcessError" ELSE "writer"
  /\ UNCHANGED <<kout, svars, negotiated, avars, rvars, ovars, nvars, cvars>>

\* connection.writer reports one progress flag: new_keepalive yields _NOP
KeepaliveWriterFlag ==
  /\ kpc = "writer"
  /\ Len(kout) < MaxFlags
  /\ \E boolean \in BOOLEAN : kout' = Append(kout, _NOP)
  /\ UNCHANGED <<kpc, svars, negotiated, avars, rvars, ovars, nvars, cvars>>

\* connection.writer is exhausted: new_keepalive yields the keepalive
KeepaliveWriterEnd ==
  /\ kpc = "writer"
  /\ kout' = Append(kout, KeepAlive)
  /\ kpc' = "done"
  /\ UNCHANGED <<svars, negotiated, avars, rvars, ovars, nvars, cvars>>

\* =========================================== Protocol.new_notification
new_notification ==
  /\ npc = "idle"
  /\ connection = "open"
  /\ npc' = "write"
  /\ UNCHANGED <<nout, svars, negotiated, avars, rvars, ovars, kvars, cvars>>

\* self.write(notification.message()) up to the call of connection.writer
NotificationWrite ==
  /\ npc = "write"
  /\ \E ok \in BOOLEAN :
       npc' = IF SendRaises(cfg, ok) THEN "ProcessError" ELSE "writer"
  /\ UNCHANGED <<nout, svars, negotiated, avars, rvars, ovars, kvars, cvars>>

\* connection.writer reports one progress flag, true or false:
\* new_notification yields _NOP
NotificationWriterFlag ==
  /\ npc = "writer"
  /\ Len(nout) < MaxFlags
  /\ \E boolean \in BOOLEAN : nout' = Append(nout, _NOP)
  /\ UNCHANGED <<npc, svars, negotiated, avars, rvars, ovars, kvars, cvars>>

\* connection.writer is exhausted: new_notification yields the notification
NotificationWriterEnd ==
  /\ npc = "writer"
  /\ nout' = Append(nout, Notification)
  /\ npc' = "done"
  /\ UNCHANGED <<svars, negotiated, avars, rvars, ovars, kvars, cvars>>

\* ========================================= Protocol.connect and close
\* processes.connected and processes.down are called only when
\* api.neighbor_changes is set; ok is the outcome of the monitoring
\* collaborator (FALSE: it raises ProcessError)
ConnectedRaises(c, ok) == c.neighbor_changes /\ ~ok

DownRaises(c, ok) == c.neighbor_changes /\ ~ok

ConnectActs(conn) == conn = "none"

CloseActsAlways(conn) == TRUE

CloseActs(conn) == conn # "none"

\* no generator of the session is alive
Quiet ==
  /\ apc = "idle"
  /\ rpc = "idle"
  /\ hpc = "idle"
  /\ opc = "idle"
  /\ kpc = "idle"
  /\ npc = "idle"

\* an operation can be called: there is a connection to use
Callable == Quiet /\ connection = "open"

\* the generators of the session are gone
Dropped ==
  /\ apc' = "idle"
  /\ name' = "none"
  /\ frags' = <<>>
  /\ data' = <<>>
  /\ chunk' = <<>>
  /\ number' = 0
  /\ written' = <<>>
  /\ wire' = <<>>
  /\ nflags' = 0
  /\ out' = <<>>
  /\ flags' = <<>>
  /\ rpc' = "idle"
  /\ caller' = "none"
  /\ zeros' = 0
  /\ length' = 0
  /\ msg' = 0
  /\ body' = NoBody
  /\ frame' = <<>>
  /\ msgs' = <<>>
  /\ hpc' = "idle"
  /\ message' = <<>>
  /\ hout' = <<>>
  /\ notify' = <<>>
  /\ opc' = "idle"
  /\ oout' = <<>>
  /\ kpc' = "idle"
  /\ kout' = <<>>
  /\ npc' = "idle"
  /\ nout' = <<>>

\* connect: a new Outgoing connection when there is none, then the
\* connected hook, whose ProcessError is not caught
connect ==
  /\ Quiet
  /\ IF ConnectActs(connection)
       THEN /\ nconn < MaxConnects
            /\ connection' = "open"
            /\ nconn' = nconn + 1
            /\ \E ok \in BOOLEAN :
                 called' = [op |-> "connect",
                            effect |-> IF ConnectedRaises(cfg, ok)
                                         THEN "ProcessError" ELSE "connected"]
       ELSE /\ called' = [op |-> "connect", effect |-> "noop"]
            /\ UNCHANGED <<connection, nconn>>
  /\ UNCHANGED <<cfg, message_size, negotiated, nclose, ndown, nfail,
                 avars, rvars, ovars, kvars, nvars>>

\* close: connection.close(), connection = None, then the down hook, whose
\* ProcessError is caught and logged; the generators that used the
\* connection are abandoned
close ==
  /\ IF CloseActs(connection)
       THEN /\ connection' = "none"
            /\ nclose' = nclose + 1
            /\ ndown' = IF cfg.neighbor_changes THEN ndown + 1 ELSE ndown
            /\ \E ok \in BOOLEAN :
                 nfail' = IF DownRaises(cfg, ok) THEN nfail + 1 ELSE nfail
            /\ called' = [op |-> "close", effect |-> "closed"]
       ELSE /\ called' = [op |-> "close", effect |-> "noop"]
            /\ UNCHANGED <<connection, nclose, ndown, nfail>>
  /\ Dropped
  /\ UNCHANGED <<cfg, message_size, negotiated, nconn>>

\* ========================================================= the session
\* the caller is done with the generator it iterated, finished or not
Release ==
  /\ ~Quiet
  /\ Dropped
  /\ UNCHANGED <<svars, negotiated, cvars>>

SessionPull == PullFragmentFrom(SessionLens(message_size))

SessionFrame == ReaderFrameFrom(SessionFrames)

\* a Protocol with or without a connection, as __init__ is given one
Init ==
  /\ cfg \in SessionConfigs
  /\ connection \in {"none", "open"}
  /\ message_size = MAX_LEN - HEADER_LEN
  /\ negotiated = Negotiated
  /\ IdleAnnounce
  /\ IdleRead
  /\ IdleOpen
  /\ IdleSend
  /\ NoCall(IF connection = "open" THEN 1 ELSE 0)

\* one operation at a time: the next one is called when the generator of the
\* last one has been released
Next ==
  \/ connect
  \/ close
  \/ Release
  \/ Callable /\ new_update
  \/ Callable /\ new_eors
  \/ Callable /\ read_message
  \/ Callable /\ read_open
  \/ Callable /\ read_keepalive
  \/ Callable /\ new_open
  \/ Callable /\ new_keepalive
  \/ Callable /\ new_notification
  \/ SessionPull
  \/ PullEnd
  \/ WriteChunk
  \/ WriterFlag
  \/ WriterEnd
  \/ ReaderZero
  \/ SessionFrame
  \/ ReaderError
  \/ Receive
  \/ Dispatch
  \/ ResumeUpdate
  \/ ReadOpenCheck
  \/ ReadKeepaliveCheck
  \/ OpenWrite
  \/ OpenWriterFlag
  \/ OpenWriterEnd
  \/ KeepaliveWrite
  \/ KeepaliveWriterFlag
  \/ KeepaliveWriterEnd
  \/ NotificationWrite
  \/ NotificationWriterFlag
  \/ NotificationWriterEnd

Spec == Init /\ [][Next]_vars

\* ====================================================== properties
\* the concatenation of fragments a..b of the producer's sequence
RECURSIVE FragRange(_, _)
FragRange(a, b) == IF a > b THEN <<>> ELSE FragRange(a, b - 1) \o Fragment(b, frags[b])

\* the concatenation of the first k chunks handed to write
RECURSIVE WrittenBytes(_)
WrittenBytes(k) == IF k = 0 THEN <<>> ELSE WrittenBytes(k - 1) \o written[k].chunk

\* the number of fragments the first k chunks claim to hold
RECURSIVE WrittenCount(_)
WrittenCount(k) == IF k = 0 THEN 0 ELSE WrittenCount(k - 1) + written[k].number

AllFit == \A i \in 1..Len(frags) : frags[i] <= message_size

\* C1: every chunk handed to write() is at most message_size bytes long,
\* whatever the fragment lengths and their order.
C1_ChunkWithinSize ==
  \A k \in 1..Len(written) : StrLen(written[k].chunk) <= message_size

C1_Witness ==
  /\ Len(written) >= 2
  /\ StrLen(written[1].chunk) = message_size
  /\ written[1].number >= 2

\* C2: when every fragment is at most message_size long, the chunks emitted
\* so far are always a prefix of the concatenated fragments, and once the
\* producer is exhausted and the run is over their concatenation is exactly
\* the concatenation of all fragments, in order, without loss or repetition.
C2_ChunksReproduceFragments ==
  AllFit =>
    /\ \E n \in 0..Len(frags) : WrittenBytes(Len(written)) = FragRange(1, n)
    /\ apc = "done" => WrittenBytes(Len(written)) = FragRange(1, Len(frags))

C2_Witness ==
  /\ apc = "done"
  /\ Len(frags) = MaxFrags
  /\ Len(written) >= 2
  /\ \A i \in 1..Len(frags) : frags[i] > 0

\* C3: a fragment longer than message_size makes the chunker fail with
\* SizeError as soon as it is pulled, and no chunk handed to write or to the
\* connection writer contains a byte of it.
C3_OversizeFails ==
  \A i \in 1..Len(frags) :
    frags[i] > message_size =>
      /\ apc = "SizeError"
      /\ i = Len(frags)
      /\ \A k \in 1..Len(written) :
           \A j \in 1..Len(written[k].chunk) : written[k].chunk[j].frag # i
      /\ \A k \in 1..Len(wire) :
           \A j \in 1..Len(wire[k]) : wire[k][j].frag # i

C3_Witness ==
  /\ apc = "SizeError"
  /\ Len(written) >= 1
  /\ chunk # <<>>
  /\ frags[Len(frags)] > message_size

\* C4: the chunker packs greedily in one pass: chunk k holds, with its count,
\* exactly the next written[k].number fragments; it is closed only when the
\* fragment after it would not have fitted; at the end of the input a
\* non-empty accumulator has been flushed; and lengths [10, 10, 10] with
\* message_size 25 give (2, 20 bytes) then (1, 10 bytes).
C4_GreedyPacking ==
  /\ \A k \in 1..Len(written) :
       LET first == WrittenCount(k - 1) + 1
           last == WrittenCount(k)
       IN /\ written[k].number >= 1
          /\ last <= Len(frags)
          /\ written[k].chunk = FragRange(first, last)
          /\ last < Len(frags) =>
               StrLen(written[k].chunk) + frags[last + 1] > message_size
  /\ apc = "done" =>
       /\ AllFit
       /\ chunk # <<>> =>
            /\ Len(written) >= 1
            /\ written[Len(written)] = [number |-> number, chunk |-> chunk]
            /\ WrittenCount(Len(written)) = Len(frags)
  /\ (apc = "done" /\ message_size = 25 /\ frags = <<10, 10, 10>>) =>
       written = << [number |-> 2, chunk |-> Fragment(1, 10) \o Fragment(2, 10)],
                    [number |-> 1, chunk |-> Fragment(3, 10)] >>

C4_Witness ==
  /\ apc = "done"
  /\ message_size = 25
  /\ frags = <<10, 10, 10>>
  /\ Len(written) = 2
  /\ StrLen(written[1].chunk) = 20

\* ---------------------------------------------------------- read_open
\* read_open has left its loop on an OPEN and has decided on it
ReadOpenDecided ==
  /\ caller = "read_open"
  /\ hpc \in {"done", "Notify"}
  /\ message # <<>>
  /\ message[1].kind = "Open"

TheOpen == message[1].open

\* the conditions of the rules of read_open, on the OPEN and the configuration
LacksAsn4 == ~TheOpen.asn4 /\ cfg.local_as > 65535
AsnDiffers == TheOpen.asn # cfg.peer_as
RouterIdIsZero == TheOpen.router_id = 0
Collides == TheOpen.router_id = cfg.router_id /\ TheOpen.asn = cfg.local_as
BadHoldTime == TheOpen.hold_time \in {1, 2}
BadMultisession == TheOpen.multisession \notin {MsTrue, MsFalse}

Failed(c, sc) == hpc = "Notify" /\ notify = <<c, sc>>

Validated ==
  /\ hpc = "done"
  /\ notify = <<>>
  /\ hout # <<>>
  /\ hout[Len(hout)] = message[1]

\* C5 as claimed: an OPEN whose router id is 0.0.0.0 always fails with
\* notification (2,3), whatever its other fields and the configuration.
C5_RouterIdZeroAlways23 ==
  (ReadOpenDecided /\ RouterIdIsZero) => Failed(2, 3)

\* C5: an OPEN whose router id is 0.0.0.0 always fails with a notification:
\* (2,0) when the local AS needs ASN4 and the OPEN lacks it, otherwise (2,2)
\* when its ASN is not the configured peer ASN, and otherwise (2,3),
\* whatever the hold time, the multisession value and the rest of the
\* configuration.
C5_RouterIdZeroFails ==
  (ReadOpenDecided /\ RouterIdIsZero) =>
    IF LacksAsn4 THEN Failed(2, 0)
    ELSE IF AsnDiffers THEN Failed(2, 2)
    ELSE Failed(2, 3)

C5_Witness ==
  /\ ReadOpenDecided
  /\ RouterIdIsZero
  /\ BadHoldTime
  /\ BadMultisession
  /\ Failed(2, 3)

\* C6: read_open fails with the notification of the first rule that holds, in
\* the order ASN4 (2,0), ASN match (2,2), router id zero (2,3), router id and
\* ASN collision (2,3), hold time 1 or 2 (2,6), multisession error payload;
\* when no rule holds it yields the OPEN.  A differing ASN with every other
\* field valid gives (2,2), and hold time 0 is accepted.
C6_RulesInOrder ==
  ReadOpenDecided =>
    /\ IF LacksAsn4 THEN Failed(2, 0)
       ELSE IF AsnDiffers THEN Failed(2, 2)
       ELSE IF RouterIdIsZero THEN Failed(2, 3)
       ELSE IF Collides THEN Failed(2, 3)
       ELSE IF BadHoldTime THEN Failed(2, 6)
       ELSE IF BadMultisession
         THEN Failed(TheOpen.multisession.code, TheOpen.multisession.subcode)
       ELSE Validated
    /\ (AsnDiffers /\ ~LacksAsn4 /\ ~RouterIdIsZero /\ ~Collides /\ ~BadHoldTime
          /\ ~BadMultisession) => Failed(2, 2)
    /\ (TheOpen.hold_time = 0 /\ ~LacksAsn4 /\ ~AsnDiffers /\ ~RouterIdIsZero
          /\ ~Collides /\ ~BadMultisession) => Validated

C6_Witness ==
  /\ ReadOpenDecided
  /\ AsnDiffers
  /\ RouterIdIsZero
  /\ BadHoldTime
  /\ ~LacksAsn4
  /\ Failed(2, 2)

\* the OPEN of C7: matching ASN, router id neither zero nor the local one,
\* hold time at least 3, received after new_open has run
HandshakeCase ==
  /\ opc = "done"
  /\ negotiated.sent = <<SentOpen(cfg)>>
  /\ ReadOpenDecided
  /\ ~AsnDiffers
  /\ ~RouterIdIsZero
  /\ TheOpen.router_id # cfg.router_id
  /\ TheOpen.hold_time >= 3

\* C7 as claimed: after new_open, such an OPEN completes the handshake for
\* every configuration and every value of its remaining fields.
C7_HandshakeAlwaysCompletes ==
  HandshakeCase => Validated

\* C7: after new_open, an OPEN with matching ASN, a non-zero router id distinct
\* from the local one and hold time >= 3, which carries the ASN4 capability
\* when the local AS needs it and whose multisession value is True or False,
\* completes the handshake: read_open records it, yields it and raises no
\* Notify, and new_open has yielded the OPEN it sent.
C7_HandshakeCompletes ==
  (HandshakeCase /\ ~LacksAsn4 /\ ~BadMultisession) =>
    /\ Validated
    /\ negotiated.received = <<TheOpen>>
    /\ oout[Len(oout)] = Open(SentOpen(cfg))

C7_Witness ==
  /\ HandshakeCase
  /\ TheOpen.asn = cfg.local_as
  /\ ~TheOpen.asn4
  /\ Validated

\* ------------------------------------------------------- read_message
\* what a complete frame is decoded to
FrameValues(f, c) ==
  IF f.msg = TYPE_UPDATE
    THEN (IF f.length = 30 /\ f.body.eor THEN <<EOR>> ELSE <<>>)
         \o <<IF c.receive_routes THEN Update ELSE _NOP>>
  ELSE IF f.msg = TYPE_KEEPALIVE THEN <<KeepAlive>>
  ELSE IF f.msg = TYPE_NOTIFICATION THEN <<Notification>>
  ELSE IF f.msg = TYPE_ROUTE_REFRESH THEN <<RouteRefresh>>
  ELSE IF f.msg = TYPE_OPEN THEN <<Open(f.body.open)>>
  ELSE <<Unknown(f.msg)>>

IsPrefix(s, t) == Len(s) <= Len(t) /\ s = SubSeq(t, 1, Len(s))

\* C8: each zero-length result of the reader yields exactly one NoOp and
\* nothing else; the values yielded after them are those of the complete
\* frame alone, however many zero-length results came before it.
C8_ZeroReadsOnlyNoOp ==
  /\ Len(msgs) >= zeros
  /\ \A i \in 1..zeros : msgs[i] = _NOP
  /\ frame = <<>> => Len(msgs) = zeros
  /\ frame # <<>> =>
       /\ IsPrefix(SubSeq(msgs, zeros + 1, Len(msgs)), FrameValues(frame[1], cfg))
       /\ rpc = "end" =>
            SubSeq(msgs, zeros + 1, Len(msgs)) = FrameValues(frame[1], cfg)

C8_Witness ==
  /\ rpc = "end"
  /\ zeros >= 2
  /\ Len(msgs) = zeros + 1
  /\ msgs[Len(msgs)] = KeepAlive

KnownTypes ==
  {TYPE_UPDATE, TYPE_KEEPALIVE, TYPE_NOTIFICATION, TYPE_ROUTE_REFRESH, TYPE_OPEN}

\* C9 as claimed: a frame whose type code is none of the five known ones
\* makes read_message produce Unknown with that code, and never an error.
C9_UnknownNeverRaises ==
  (frame # <<>> /\ frame[1].msg \notin KnownTypes) =>
    /\ rpc \in {"receive", "dispatch", "end"}
    /\ rpc = "end" => msgs[Len(msgs)] = Unknown(frame[1].msg)

\* C10 as claimed: a ProcessError of the monitoring collaborator never leaves
\* write, read_message or an operation built on them.
C10_MonitoringFaultsSwallowed ==
  /\ apc # "ProcessError"
  /\ opc # "ProcessError"
  /\ rpc # "ProcessError"
  /\ hpc # "ProcessError"

\* C13 as claimed: a complete frame makes read_message produce exactly one
\* value or fail, for every type code and for a 30 byte UPDATE that starts
\* with the END-OF-RIB prefix, with route decoding on or off.
C13_OneValuePerFrame ==
  rpc = "end" => Len(msgs) = zeros + 1

\* ------------------------------------------------- read_open, the loop
\* what Negotiated holds of the OPEN of the peer
ReceivedPart(n) == <<n.received, n.peer_as, n.asn4, n.multisession>>

\* C15 as claimed: when read_open fails with a Notify, negotiated.received and
\* the fields derived from it are what they were before.
C15_ReceivedOnlyOnSuccess ==
  [][(caller = "read_open" /\ hpc' = "Notify") =>
       ReceivedPart(negotiated') = ReceivedPart(negotiated)]_vars

\* C15: read_open records the OPEN of the peer as soon as the first message
\* that is not a NoOp is an OPEN, before any validation rule: when it yields
\* the OPEN, and equally when a validation rule fails, received is that OPEN
\* and peer_as, asn4 and multisession are taken from it; received and these
\* fields are unchanged only when read_open fails because the first message
\* is not an OPEN or because the reader fails.
C15_ReceivedBeforeValidation ==
  [][(caller = "read_open" /\ hpc \in {"loop", "check"}
        /\ hpc' \in {"done", "Notify"}) =>
       IF hpc = "check" /\ TYPE(message[1]) = "OPEN"
         THEN /\ negotiated'.received = <<message[1].open>>
              /\ negotiated'.peer_as = message[1].open.asn
              /\ negotiated'.asn4 = message[1].open.asn4
              /\ negotiated'.multisession = message[1].open.multisession
              /\ negotiated'.sent = negotiated.sent
         ELSE /\ hpc' = "Notify"
              /\ negotiated' = negotiated]_vars

C15_Witness ==
  /\ ReadOpenDecided
  /\ Failed(2, 6)
  /\ negotiated.received = <<TheOpen>>
  /\ negotiated.peer_as = TheOpen.asn

IsNoOp(m) == TYPE(m) = "NOP"

\* C16: read_open passes every NoOp of read_message on, in order, and decides
\* on the first message that is not a NoOp, or on the last NoOp when
\* read_message ends without another value; when the message it decides on is
\* not an OPEN it fails with (5,1); it yields nothing but these NoOps and, as
\* its last value, an OPEN that no validation rule rejects.
C16_FirstNonNoOpDecides ==
  caller = "read_open" =>
    /\ hout = SelectSeq(msgs, IsNoOp) \o (IF hpc = "done" THEN message ELSE <<>>)
    /\ (hpc \in {"check", "done"} \/ (hpc = "Notify" /\ rpc # "Notify")) =>
         /\ message = <<msgs[Len(msgs)]>>
         /\ \A i \in 1..(Len(msgs) - 1) : IsNoOp(msgs[i])
         /\ IsNoOp(message[1]) => rpc = "end"
         /\ (hpc # "check" /\ TYPE(message[1]) # "OPEN") => Failed(5, 1)
    /\ hpc = "done" =>
         /\ TYPE(message[1]) = "OPEN"
         /\ ~LacksAsn4 /\ ~AsnDiffers /\ ~RouterIdIsZero /\ ~Collides
         /\ ~BadHoldTime /\ ~BadMultisession
    /\ \A i \in 1..Len(hout) :
         IsNoOp(hout[i]) \/ (i = Len(hout) /\ hpc = "done")

C16_Witness ==
  /\ caller = "read_open"
  /\ Failed(5, 1)
  /\ rpc = "end"
  /\ message[1].kind = "Unknown"
  /\ Len(hout) = MaxZeroReads + 1
  /\ negotiated.received = <<>>

\* ------------------------------------------------- _announce, progress
RECURSIVE Sum(_)
Sum(q) == IF q = <<>> THEN 0 ELSE q[1] + Sum(Tail(q))

\* the writer reported exactly one true flag for chunk k, as its last flag
OneTrueFlagLast(k) ==
  \E i \in 1..Len(flags) :
    /\ flags[i].k = k
    /\ flags[i].b
    /\ \A j \in 1..Len(flags) :
         (j # i /\ flags[j].k = k) => (~flags[j].b /\ j < i)

Writing == apc \in {"writer", "writer_last"}

FlagsAccounted ==
  /\ Len(out) = Len(flags)
  /\ \A i \in 1..Len(flags) :
       /\ flags[i].k \in 1..Len(written)
       /\ out[i] = IF flags[i].b THEN written[flags[i].k].number ELSE 0
  /\ (apc = "done" /\ \A k \in 1..Len(written) : OneTrueFlagLast(k)) =>
       Sum(out) = Len(frags)

C19_OneChunkInFlight ==
  /\ Len(wire) \in {Len(written) - 1, Len(written)}
  /\ \A k \in 1..Len(wire) : wire[k] = written[k].chunk
  /\ \A k \in 1..Len(written) :
       written[k].chunk = FragRange(WrittenCount(k - 1) + 1, WrittenCount(k))
  /\ \A i \in 1..Len(flags) : \A j \in i..Len(flags) : flags[i].k <= flags[j].k
  /\ Writing =>
       /\ Len(wire) = Len(written)
       /\ Len(frags) = WrittenCount(Len(written)) + (IF apc = "writer" THEN 1 ELSE 0)
       /\ \A i \in 1..Len(flags) : flags[i].k <= Len(written)
       /\ ENABLED WriterEnd
  /\ apc \in {"emit", "emit_last"} =>
       /\ Len(wire) = Len(written)
       /\ \A i \in 1..Len(flags) : flags[i].k <= Len(written)
       /\ Len(frags) = WrittenCount(Len(written)) + number
                         + (IF apc = "emit" THEN 1 ELSE 0)

C19_Witness ==
  /\ apc = "writer_last"
  /\ Len(written) = 2
  /\ Len(frags) = 3
  /\ \E i \in 1..Len(flags) : flags[i].k = 1
  /\ \A i \in 1..Len(flags) : ~flags[i].b
  /\ \E i \in 1..Len(flags) : flags[i].k = 2

\* C20: when the chunker has failed with SizeError on fragment i, the chunks
\* handed to write are, concatenated, the first n fragments for some n < i,
\* the accumulator holds the fragments n+1..i-1 and no byte of them or of
\* fragment i has been handed to write or to the writer; and in every run
\* each chunk handed to write is non-empty and has a count of at least 1.
C20_SizeErrorKeepsPrefix ==
  /\ apc = "SizeError" =>
       LET i == Len(frags)
           n == WrittenCount(Len(written))
       IN /\ n < i
          /\ WrittenBytes(Len(written)) = FragRange(1, n)
          /\ chunk = FragRange(n + 1, i - 1)
          /\ number = i - 1 - n
          /\ \A k \in 1..Len(written) :
               \A j \in 1..Len(written[k].chunk) : written[k].chunk[j].frag <= n
          /\ \A k \in 1..Len(wire) :
               \A j \in 1..Len(wire[k]) : wire[k][j].frag <= n
  /\ \A k \in 1..Len(written) :
       /\ written[k].chunk # <<>>
       /\ StrLen(written[k].chunk) >= 1
       /\ written[k].number >= 1
  /\ \A k \in 1..Len(wire) : StrLen(wire[k]) >= 1

C20_Witness ==
  /\ apc = "SizeError"
  /\ Len(frags) = 3
  /\ Len(written) = 1
  /\ written[1].number = 1
  /\ number = 1
  /\ chunk = FragRange(2, 2)

\* ------------------------------------------------- connect and close
CloseCounts ==
  /\ nclose <= nconn
  /\ nclose = IF connection = "open" THEN nconn - 1 ELSE nconn
  /\ ndown = IF cfg.neighbor_changes THEN nclose ELSE 0
  /\ nfail <= ndown
  /\ called.op = "close" => called.effect \in {"closed", "noop"}

\* C11: in every sequence of connect and close calls, connection.close() has
\* been called once for each connection that is no longer there and never
\* for the current one, processes.down as often when neighbor changes are
\* reported and never otherwise, also when processes.down raised
\* ProcessError, which never leaves close; and a close without a connection
\* changes nothing.
C11_CloseIdempotent ==
  [][/\ CloseCounts'
     /\ (connection = "none" /\ called'.op = "close") =>
          /\ called'.effect = "noop"
          /\ UNCHANGED <<connection, nconn, nclose, ndown, nfail, negotiated>>]_vars

C11_Witness ==
  /\ called = [op |-> "close", effect |-> "noop"]
  /\ connection = "none"
  /\ nconn >= 2
  /\ nclose = nconn
  /\ ndown = nclose
  /\ nfail >= 1

\* C12 as claimed: once negotiated.received is set it is never set again, and
\* read_message does not yield an OPEN any more but fails.
C12_ReceivedSetOnce ==
  [][negotiated.received # <<>> =>
       /\ negotiated'.received = negotiated.received
       /\ ~(/\ Len(msgs') = Len(msgs) + 1
            /\ TYPE(msgs'[Len(msgs')]) = "OPEN")]_vars

\* C14 as claimed: new_notification yields _NOP for each flag of the writer
\* and always ends by yielding the notification, as its last value.
C14_NotificationAlwaysYielded ==
  /\ \A i \in 1..Len(nout) :
       \/ nout[i] = _NOP
       \/ i = Len(nout) /\ npc = "done" /\ nout[i] = Notification
  /\ npc \in {"done", "ProcessError"} =>
       /\ nout # <<>>
       /\ nout[Len(nout)] = Notification

====
